---------------------------- MODULE Spec2Model ----------------------------
(***************************************************************************)
(* A model of mmgotool's "i18n extract" and "i18n check" commands          *)
(* (mmgotool/commands/i18n.go): the scanner that collects translation      *)
(* identifiers from parsed Go files, the file filter of the directory      *)
(* walk, and the reconciliation of the collected identifiers with the      *)
(* catalog i18n/en.json.                                                   *)
(*                                                                         *)
(* Strings whose bytes matter (identifiers, literal values) are sequences  *)
(* of one-character strings, ordered as Go orders them (bytewise).  Paths  *)
(* are sequences of tokens ("vendor", "/", ".go", ...); the token set is   *)
(* prefix-free and suffix-free, so strings.HasPrefix / strings.HasSuffix   *)
(* on the spelled-out strings agree with the same tests on the token       *)
(* sequences.                                                              *)
(***************************************************************************)
EXTENDS Naturals, Sequences, FiniteSets, TLC

VARIABLES
    xeniaDir,       \* --xenia-dir, as a cleaned path
    enterpriseDir,  \* --enterprise-dir, as a cleaned path
    tree,           \* the source files under both roots (never written)
    enJson,         \* the catalog file <xenia-dir>/i18n/en.json on disk
    cmd,            \* the command that is running or ran last
    pc,             \* where the running command is
    todo,           \* files filepath.Walk has not handed to walkFunc yet
    walked,         \* files walkFunc was called with in this run
    scanned,        \* files that got past the filter (read and parsed)
    i18nStrings,    \* the map[string]bool of collected identifiers
    translations,   \* what getCurrentTranslations returned
    stdout,         \* the lines fmt.Println printed in this run
    result,         \* how the command ended
    creates,        \* os.Create calls on en.json in this run
    before,         \* en.json as it was when the run started
    prev,           \* summary of the previous finished run
    node            \* the syntax node handed to the ast.Inspect callback

vars == <<xeniaDir, enterpriseDir, tree, enJson, cmd, pc, todo, walked, scanned,
          i18nStrings, translations, stdout, result, creates, before, prev, node>>

(***************************************************************************)
(* Bounds of the model.                                                    *)
(***************************************************************************)
\* longest catalog (number of entries of en.json) an initial state holds
MaxCatalog == 2
\* most arguments of a call expression handed to the callback
MaxArgs == 2
\* most name/initializer pairs of one constant specification
MaxNames == 2

(***************************************************************************)
(* Strings.                                                                *)
(***************************************************************************)
\* the characters the model's strings use, in increasing byte order
Alphabet == <<"\"", ".", "2", "4", "M", "a", "b", "c", "h", "r", "y", "z">>

Ord(c) == CHOOSE i \in 1..Len(Alphabet) : Alphabet[i] = c

\* Go's s < t on strings: bytewise lexicographic, a proper prefix is smaller
StringLess(s, t) ==
    \E k \in 0..Len(s) :
        /\ k <= Len(t)
        /\ \A i \in 1..k : s[i] = t[i]
        /\ \/ k = Len(s) /\ k < Len(t)
           \/ k < Len(s) /\ k < Len(t) /\ Ord(s[k + 1]) < Ord(t[k + 1])

HasPrefix(s, prefix) ==
    /\ Len(prefix) <= Len(s)
    /\ SubSeq(s, 1, Len(prefix)) = prefix

HasSuffix(s, suffix) ==
    /\ Len(suffix) <= Len(s)
    /\ SubSeq(s, Len(s) - Len(suffix) + 1, Len(s)) = suffix

RECURSIVE TrimLeft(_, _)
TrimLeft(s, c) ==
    IF s # <<>> /\ Head(s) = c THEN TrimLeft(Tail(s), c) ELSE s

RECURSIVE TrimRight(_, _)
TrimRight(s, c) ==
    IF s # <<>> /\ s[Len(s)] = c THEN TrimRight(SubSeq(s, 1, Len(s) - 1), c) ELSE s

\* strings.Trim(s, "\""): every leading and trailing quote is cut
TrimQuotes(s) == TrimRight(TrimLeft(s, "\""), "\"")

\* sort.Strings: insertion into an already sorted list
RECURSIVE InsertString(_, _)
InsertString(x, sorted) ==
    IF sorted = <<>> THEN <<x>>
    ELSE IF StringLess(Head(sorted), x)
         THEN <<Head(sorted)>> \o InsertString(x, Tail(sorted))
         ELSE <<x>> \o sorted

RECURSIVE SortStrings(_)
SortStrings(list) ==
    IF list = <<>> THEN <<>> ELSE InsertString(Head(list), SortStrings(Tail(list)))

\* the keys of a Go map in some iteration order
RECURSIVE KeysOf(_)
KeysOf(set) ==
    IF set = {} THEN <<>>
    ELSE LET k == CHOOSE x \in set : TRUE IN <<k>> \o KeysOf(set \ {k})

\* all sequences over set of length at most n
SeqUpTo(set, n) == UNION {[1..k -> set] : k \in 0..n}

(***************************************************************************)
(* The identifiers and literals of the model.                              *)
(***************************************************************************)
IdA == <<"a">>
IdAB == <<"a", ".", "b">>
IdZ == <<"z">>
IdMarch == <<"M", "a", "r", "c", "h">>
IdMay == <<"M", "a", "y">>

\* addDynamicallyGeneratedStrings, cut down to two of its 42 identifiers
\* (both are in the source's list)
DynamicallyGenerated == {IdMarch, IdMay}

addDynamicallyGeneratedStrings(strings) == strings \cup DynamicallyGenerated

(***************************************************************************)
(* Syntax nodes.  An expression is a basic literal (its Value is the       *)
(* source text, quotes included) or anything else (an identifier here).    *)
(***************************************************************************)
StringLit(s) == [type |-> "BasicLit", kind |-> "STRING", value |-> <<"\"">> \o s \o <<"\"">>]
IntLit == [type |-> "BasicLit", kind |-> "INT", value |-> <<"4", "2">>]
SomeVar == [type |-> "Ident", kind |-> "", value |-> <<>>]

CallExpr(funType, name, args) ==
    [type |-> "CallExpr", funType |-> funType, name |-> name, args |-> args,
     tok |-> "", specs |-> <<>>]

GenDecl(tok, specs) ==
    [type |-> "GenDecl", funType |-> "", name |-> "", args |-> <<>>,
     tok |-> tok, specs |-> specs]

ValueSpec(names, values) == [names |-> names, values |-> values]

OtherNode == [type |-> "ReturnStmt", funType |-> "", name |-> "", args |-> <<>>,
              tok |-> "", specs |-> <<>>]

\* a *string: nil, or a pointer to a value
NilString == [ok |-> FALSE, value |-> <<>>]
PtrTo(s) == [ok |-> TRUE, value |-> s]

\* args[i].(*ast.BasicLit) with the length check in front of it (i is 0-based)
LiteralArg(args, i, minLen) ==
    IF Len(args) < minLen THEN NilString
    ELSE IF args[i + 1].type # "BasicLit" THEN NilString
    ELSE PtrTo(args[i + 1].value)

\* NewAppError read at argument 0 instead of 1
extractByFuncNameFirstArg(name, args) ==
    IF name \in {"T", "newAppError", "translateFunc", "userLocale", "localT",
                 "NewAppError", "TranslateAsHtml"}
    THEN LiteralArg(args, 0, 1)
    ELSE NilString

extractByFuncName(name, args) ==
    IF name = "T" THEN LiteralArg(args, 0, 1)
    ELSE IF name = "NewAppError" THEN LiteralArg(args, 1, 2)
    ELSE IF name = "newAppError" THEN LiteralArg(args, 0, 1)
    ELSE IF name = "translateFunc" THEN LiteralArg(args, 0, 1)
    ELSE IF name = "TranslateAsHtml" THEN LiteralArg(args, 1, 2)
    ELSE IF name = "userLocale" THEN LiteralArg(args, 0, 1)
    ELSE IF name = "localT" THEN LiteralArg(args, 0, 1)
    ELSE NilString

validConstants ==
    {"MISSING_CHANNEL_ERROR", "MISSING_CHANNEL_MEMBER_ERROR", "CHANNEL_EXISTS_ERROR",
     "MISSING_STATUS_ERROR", "TEAM_MEMBER_EXISTS_ERROR", "MISSING_AUTH_ACCOUNT_ERROR",
     "MISSING_ACCOUNT_ERROR", "EXPIRED_LICENSE_ERROR", "INVALID_LICENSE_ERROR"}

extractForCostants(name, value_node) ==
    IF name \notin validConstants THEN NilString
    ELSE IF value_node.type # "BasicLit" THEN NilString
    ELSE PtrTo(value_node.value)

\* the loop over expr.Specs of a constant declaration
RECURSIVE ConstSpecs(_, _)
ConstSpecs(specs, strings) ==
    IF specs = <<>> THEN strings
    ELSE LET value_spec == Head(specs)
             id == extractForCostants(value_spec.names[1], value_spec.values[1])
         IN  IF Len(value_spec.names) = 0 \/ Len(value_spec.values) = 0
             THEN ConstSpecs(Tail(specs), strings)
             ELSE IF ~id.ok
             THEN ConstSpecs(Tail(specs), strings)
             ELSE ConstSpecs(Tail(specs), strings \cup {TrimQuotes(id.value)})

\* the callback of ast.Inspect, on one node: the map after the call
InspectNode(n, strings) ==
    IF n.type = "CallExpr" THEN
        IF n.funType \in {"SelectorExpr", "Ident"} THEN
            LET id == extractByFuncName(n.name, n.args)
            IN  IF id.ok THEN strings \cup {TrimQuotes(id.value)} ELSE strings
        ELSE strings
    ELSE IF n.type = "GenDecl" THEN
        IF n.tok = "CONST" THEN ConstSpecs(n.specs, strings) ELSE strings
    ELSE strings

\* ast.Inspect over a parsed file: the callback always returns true, so
\* every node of the file is visited
RECURSIVE InspectAll(_, _)
InspectAll(nodes, strings) ==
    IF nodes = <<>> THEN strings
    ELSE InspectAll(Tail(nodes), InspectNode(Head(nodes), strings))


(***************************************************************************)
(* Paths and the file filter.  A cleaned path is a sequence of tokens;     *)
(* the current directory "./" cleans to the empty sequence.                *)
(***************************************************************************)
\* path.Join / filepath.Join of a cleaned directory and a relative path
PathJoin(dir, rel) == IF dir = <<>> THEN rel ELSE dir \o <<"/">> \o rel

RootDir(root) == IF root = "xenia" THEN xeniaDir ELSE enterpriseDir

\* the path filepath.Walk hands to walkFunc for a file of a root
FilePath(f) == PathJoin(RootDir(f.root), f.rel)

\* walkFunc's own test, before it calls extractFromPath
VendorSkipped(p) == HasPrefix(p, PathJoin(xeniaDir, <<"vendor">>))

\* the three early returns of extractFromPath
Filtered(p) ==
    \/ HasSuffix(p, <<"model", "/", "client4", ".go">>)
    \/ HasSuffix(p, <<"_test", ".go">>)
    \/ ~HasSuffix(p, <<".go">>)

\* a file that does not parse is stepped over instead of stopping the run
extractFromPathSkipsBad(f, strings) ==
    IF Filtered(FilePath(f)) THEN [read |-> FALSE, panic |-> FALSE, strings |-> strings]
    ELSE IF ~f.parses THEN [read |-> TRUE, panic |-> FALSE, strings |-> strings]
    ELSE [read |-> TRUE, panic |-> FALSE, strings |-> InspectAll(f.nodes, strings)]

\* extractFromPath: whether the file was read, whether the call panicked,
\* and the map afterwards
extractFromPath(f, strings) ==
    IF Filtered(FilePath(f)) THEN [read |-> FALSE, panic |-> FALSE, strings |-> strings]
    ELSE IF ~f.parses THEN [read |-> TRUE, panic |-> TRUE, strings |-> strings]
    ELSE [read |-> TRUE, panic |-> FALSE, strings |-> InspectAll(f.nodes, strings)]

\* the closure walkFunc of extractStrings
walkFunc(f, strings) ==
    IF VendorSkipped(FilePath(f))
    THEN [read |-> FALSE, panic |-> FALSE, strings |-> strings]
    ELSE extractFromPath(f, strings)

(***************************************************************************)
(* The catalog file and its JSON values.                                   *)
(***************************************************************************)
JString(s) == [t |-> "string", v |-> s]
JPlural == [t |-> "object", v |-> "{one, other}"]
JNull == [t |-> "null", v |-> ""]
\* an entry without a "translation" key
JAbsent == [t |-> "absent", v |-> ""]
\* the nil interface{} of Go
GoNil == [t |-> "nil", v |-> ""]

\* json.Unmarshal into the interface{} field: null and a missing key both
\* leave it nil
DecodeValue(j) == IF j.t \in {"null", "absent"} THEN GoNil ELSE j

\* json.Encoder on the interface{} field (SetEscapeHTML(false): text is
\* written as it is); nil is written as null
EncodeValue(g) == IF g = GoNil THEN JNull ELSE g

MissingFile == [exists |-> FALSE, valid |-> FALSE, entries |-> <<>>]
MalformedFile == [exists |-> TRUE, valid |-> FALSE, entries |-> <<>>]
JsonFile(entries) == [exists |-> TRUE, valid |-> TRUE, entries |-> entries]

\* getCurrentTranslations: the read error, and the decoded entries (the
\* error of json.Unmarshal is dropped: a malformed file decodes to nothing)
getCurrentTranslations(file) ==
    IF ~file.exists THEN [err |-> TRUE, translations |-> <<>>]
    ELSE [err |-> FALSE,
          translations |-> [i \in 1..Len(file.entries) |->
                               [Id |-> file.entries[i].id,
                                Translation |-> DecodeValue(file.entries[i].translation)]]]

\* encoder.Encode(result) into the created file
EncodeFile(res) ==
    JsonFile([i \in 1..Len(res) |->
                 [id |-> res[i].Id, translation |-> EncodeValue(res[i].Translation)]])

(***************************************************************************)
(* Reconciliation.  A Go map is a function on its key set.                 *)
(***************************************************************************)
MapPut(m, k, v) == [x \in (DOMAIN m) \cup {k} |-> IF x = k THEN v ELSE m[x]]
MapDelete(m, k) == [x \in (DOMAIN m) \ {k} |-> m[x]]
EmptyMap == [x \in {} |-> GoNil]

\* for id := range i18nStrings { append }; sort.Strings(i18nStringsList)
SortedStringsList(strings) == SortStrings(KeysOf(strings))

\* the loop over translations: idx, translationsList and resultMap
RECURSIVE IndexLoop(_, _)
IndexLoop(ts, acc) ==
    IF ts = <<>> THEN acc
    ELSE LET t == Head(ts)
         IN  IndexLoop(Tail(ts),
                       [idx |-> acc.idx \cup {t.Id},
                        translationsList |-> Append(acc.translationsList, t.Id),
                        resultMap |-> MapPut(acc.resultMap, t.Id, t)])

Indexed(ts) ==
    LET r == IndexLoop(ts, [idx |-> {}, translationsList |-> <<>>, resultMap |-> EmptyMap])
    IN  [idx |-> r.idx,
         translationsList |-> SortStrings(r.translationsList),
         resultMap |-> r.resultMap]

\* every collected identifier gets the placeholder, known or not
RECURSIVE InsertLoopOverwrites(_, _, _)
InsertLoopOverwrites(list, idx, resultMap) ==
    IF list = <<>> THEN resultMap
    ELSE LET translationKey == Head(list)
         IN  InsertLoopOverwrites(Tail(list), idx,
                 MapPut(resultMap, translationKey,
                        [Id |-> translationKey, Translation |-> JString("")]))

\* for _, translationKey := range i18nStringsList: the placeholder for a
\* key idx does not hold
RECURSIVE InsertLoop(_, _, _)
InsertLoop(list, idx, resultMap) ==
    IF list = <<>> THEN resultMap
    ELSE LET translationKey == Head(list)
         IN  InsertLoop(Tail(list), idx,
                 IF translationKey \notin idx
                 THEN MapPut(resultMap, translationKey,
                             [Id |-> translationKey, Translation |-> JString("")])
                 ELSE resultMap)

\* nothing is deleted
DeleteLoopKeepsAll(list, strings, resultMap) == resultMap

\* the test of the loop turned round: the keys still in use are deleted
RECURSIVE DeleteLoopInverted(_, _, _)
DeleteLoopInverted(list, strings, resultMap) ==
    IF list = <<>> THEN resultMap
    ELSE LET translationKey == Head(list)
         IN  DeleteLoopInverted(Tail(list), strings,
                 IF translationKey \in strings
                 THEN MapDelete(resultMap, translationKey)
                 ELSE resultMap)

\* for _, translationKey := range translationsList: a key i18nStrings does
\* not hold is deleted
RECURSIVE DeleteLoop(_, _, _)
DeleteLoop(list, strings, resultMap) ==
    IF list = <<>> THEN resultMap
    ELSE LET translationKey == Head(list)
         IN  DeleteLoop(Tail(list), strings,
                 IF translationKey \notin strings
                 THEN MapDelete(resultMap, translationKey)
                 ELSE resultMap)

\* the comparison turned round
ByIdDescending(x, y) == StringLess(y.Id, x.Id)

\* the less function of sort.Slice: result[i].Id < result[j].Id
ByIdLess(x, y) == StringLess(x.Id, y.Id)

RECURSIVE InsertById(_, _)
InsertById(x, sorted) ==
    IF sorted = <<>> THEN <<x>>
    ELSE IF ByIdLess(Head(sorted), x)
         THEN <<Head(sorted)>> \o InsertById(x, Tail(sorted))
         ELSE <<x>> \o sorted

RECURSIVE SortById(_)
SortById(list) ==
    IF list = <<>> THEN <<>> ELSE InsertById(Head(list), SortById(Tail(list)))

\* for _, t := range resultMap { append }: the values in iteration order
MapValues(m) == LET keys == KeysOf(DOMAIN m) IN [i \in 1..Len(keys) |-> m[keys[i]]]

\* lines 97-134 of extractCmdF: the slice handed to the encoder
ExtractResult(strings, ts) ==
    LET i18nStringsList == SortedStringsList(strings)
        ix == Indexed(ts)
        inserted == InsertLoop(i18nStringsList, ix.idx, ix.resultMap)
        kept == DeleteLoop(ix.translationsList, strings, inserted)
    IN  SortById(MapValues(kept))

\* the "Added:" loop of checkCmdF
RECURSIVE AddedLines(_, _)
AddedLines(list, idx) ==
    IF list = <<>> THEN <<>>
    ELSE (IF Head(list) \notin idx THEN <<[kind |-> "Added", id |-> Head(list)]>> ELSE <<>>)
         \o AddedLines(Tail(list), idx)

\* the "Removed:" loop of checkCmdF
RECURSIVE RemovedLines(_, _)
RemovedLines(list, strings) ==
    IF list = <<>> THEN <<>>
    ELSE (IF Head(list) \notin strings THEN <<[kind |-> "Removed", id |-> Head(list)]>> ELSE <<>>)
         \o RemovedLines(Tail(list), strings)

\* the removals are not reported
CheckOutputNoRemoved(strings, ts) ==
    AddedLines(SortedStringsList(strings), Indexed(ts).idx)

\* lines 163-195 of checkCmdF: what is printed
CheckOutput(strings, ts) ==
    LET ix == Indexed(ts)
    IN  AddedLines(SortedStringsList(strings), ix.idx)
        \o RemovedLines(ix.translationsList, strings)


(***************************************************************************)
(* The inputs of the model.                                                *)
(***************************************************************************)
\* app/main.go of the primary root: T("a")
FileMain ==
    [root |-> "xenia", rel |-> <<"app", "/", "main", ".go">>, parses |-> TRUE,
     nodes |-> <<OtherNode, CallExpr("Ident", "T", <<StringLit(IdA)>>)>>]

\* vendor/x.go of the primary root: T("z")
FileVendor ==
    [root |-> "xenia", rel |-> <<"vendor", "/", "x", ".go">>, parses |-> TRUE,
     nodes |-> <<CallExpr("Ident", "T", <<StringLit(IdZ)>>)>>]

\* app/bad.go of the primary root: not valid Go
FileBad ==
    [root |-> "xenia", rel |-> <<"app", "/", "bad", ".go">>, parses |-> FALSE,
     nodes |-> <<>>]

\* api/main.go of the enterprise root:
\*   const MISSING_CHANNEL_ERROR = "a.b"
\*   model.NewAppError("z", "May", x)  and  utils.T(x)
FileEnterprise ==
    [root |-> "enterprise", rel |-> <<"api", "/", "main", ".go">>, parses |-> TRUE,
     nodes |-> <<GenDecl("CONST", <<ValueSpec(<<"MISSING_CHANNEL_ERROR">>,
                                              <<StringLit(IdAB)>>)>>),
                 CallExpr("SelectorExpr", "NewAppError",
                          <<StringLit(IdZ), StringLit(IdMay), SomeVar>>),
                 CallExpr("SelectorExpr", "T", <<SomeVar>>)>>]

Trees ==
    {{}, {FileMain}, {FileEnterprise}, {FileMain, FileVendor, FileEnterprise},
     {FileMain, FileBad, FileEnterprise}}

\* the identifiers and values the entries of an initial catalog are made of
CatalogIds == {IdMay, IdA, IdZ}
CatalogValues == {JString(""), JString("<b>Hi</b>"), JPlural, JAbsent}
CatalogEntries == [id : CatalogIds, translation : CatalogValues]

Catalogs ==
    {MissingFile, MalformedFile}
        \cup {JsonFile(es) : es \in SeqUpTo(CatalogEntries, MaxCatalog)}

NoRun == [cmd |-> "none", result |-> "none", stdout |-> <<>>, before |-> MissingFile]

\* the default flags: --xenia-dir ./ and --enterprise-dir ../enterprise
DefaultXeniaDir == <<>>
DefaultEnterpriseDir == <<"..", "/", "enterprise">>

Idle ==
    /\ cmd = "none"
    /\ todo = {}
    /\ walked = {}
    /\ scanned = {}
    /\ i18nStrings = {}
    /\ translations = <<>>
    /\ stdout = <<>>
    /\ result = "none"
    /\ creates = 0
    /\ prev = NoRun

Init ==
    /\ xeniaDir = DefaultXeniaDir
    /\ enterpriseDir = DefaultEnterpriseDir
    /\ tree \in Trees
    /\ enJson \in Catalogs
    /\ before = enJson
    /\ node = OtherNode
    /\ pc = "idle"
    /\ Idle

(***************************************************************************)
(* The commands, cut at their callbacks and at their file operations.      *)
(***************************************************************************)
FilesOf(root) == {f \in tree : f.root = root}

\* extractCmdF / checkCmdF are entered (the flags are declared in init(), so
\* GetString cannot fail); extractStrings starts the walk of xeniaDir
Start(c) ==
    /\ pc \in {"idle", "done"}
    /\ prev' = IF pc = "done"
               THEN [cmd |-> cmd, result |-> result, stdout |-> stdout, before |-> before]
               ELSE prev
    /\ cmd' = c
    /\ pc' = "walkXenia"
    /\ todo' = FilesOf("xenia")
    /\ walked' = {}
    /\ scanned' = {}
    /\ i18nStrings' = {}
    /\ translations' = <<>>
    /\ stdout' = <<>>
    /\ result' = "none"
    /\ creates' = 0
    /\ before' = enJson
    /\ UNCHANGED <<xeniaDir, enterpriseDir, tree, enJson, node>>

\* filepath.Walk calls walkFunc with the next file
WalkFunc ==
    /\ pc \in {"walkXenia", "walkEnterprise"}
    /\ \E f \in todo :
          LET r == walkFunc(f, i18nStrings)
          IN  /\ todo' = todo \ {f}
              /\ walked' = walked \cup {f}
              /\ scanned' = IF r.read THEN scanned \cup {f} ELSE scanned
              /\ i18nStrings' = r.strings
              /\ pc' = IF r.panic THEN "done" ELSE pc
              /\ result' = IF r.panic THEN "panic" ELSE result
    /\ UNCHANGED <<xeniaDir, enterpriseDir, tree, enJson, cmd, translations, stdout,
                   creates, before, prev, node>>

\* filepath.Walk(xeniaDir) returned; filepath.Walk(enterpriseDir) starts
WalkEnterprise ==
    /\ pc = "walkXenia"
    /\ todo = {}
    /\ pc' = "walkEnterprise"
    /\ todo' = FilesOf("enterprise")
    /\ UNCHANGED <<xeniaDir, enterpriseDir, tree, enJson, cmd, walked, scanned,
                   i18nStrings, translations, stdout, result, creates, before, prev,
                   node>>

\* extractStrings returned: addDynamicallyGeneratedStrings, then
\* getCurrentTranslations and its error return
ReadCatalog ==
    /\ pc = "walkEnterprise"
    /\ todo = {}
    /\ i18nStrings' = addDynamicallyGeneratedStrings(i18nStrings)
    /\ LET r == getCurrentTranslations(enJson)
       IN  /\ translations' = r.translations
           /\ pc' = IF r.err THEN "done" ELSE "reconcile"
           /\ result' = IF r.err THEN "readError" ELSE result
    /\ UNCHANGED <<xeniaDir, enterpriseDir, tree, enJson, cmd, todo, walked, scanned,
                   stdout, creates, before, prev, node>>

\* the rest of extractCmdF: the result is built, en.json is created
\* (truncated) and the result encoded into it.  When os.Create fails the
\* encoder writes to a nil file and its error is returned.
ExtractWrite ==
    /\ pc = "reconcile"
    /\ cmd = "extract"
    /\ creates' = creates + 1
    /\ \E created \in BOOLEAN :
          /\ enJson' = IF created
                       THEN EncodeFile(ExtractResult(i18nStrings, translations))
                       ELSE enJson
          /\ result' = IF created THEN "ok" ELSE "writeError"
    /\ pc' = "done"
    /\ UNCHANGED <<xeniaDir, enterpriseDir, tree, cmd, todo, walked, scanned,
                   i18nStrings, translations, stdout, before, prev, node>>

\* the check also rewrites the catalog, as extract does
CheckReportWrites ==
    /\ pc = "reconcile"
    /\ cmd = "check"
    /\ stdout' = CheckOutput(i18nStrings, translations)
    /\ result' = IF stdout' # <<>> THEN "outOfDate" ELSE "ok"
    /\ enJson' = EncodeFile(ExtractResult(i18nStrings, translations))
    /\ pc' = "done"
    /\ UNCHANGED <<xeniaDir, enterpriseDir, tree, cmd, todo, walked, scanned,
                   i18nStrings, translations, creates, before, prev, node>>

\* the rest of checkCmdF: the lines are printed; changed is set by any line
CheckReport ==
    /\ pc = "reconcile"
    /\ cmd = "check"
    /\ stdout' = CheckOutput(i18nStrings, translations)
    /\ result' = IF stdout' # <<>> THEN "outOfDate" ELSE "ok"
    /\ pc' = "done"
    /\ UNCHANGED <<xeniaDir, enterpriseDir, tree, enJson, cmd, todo, walked, scanned,
                   i18nStrings, translations, creates, before, prev, node>>

Next ==
    \/ \E c \in {"extract", "check"} : Start(c)
    \/ WalkFunc
    \/ WalkEnterprise
    \/ ReadCatalog
    \/ ExtractWrite
    \/ CheckReport

Spec == Init /\ [][Next]_vars


(***************************************************************************)
(* The scanner on one node: every call expression and constant             *)
(* declaration of the bounded shapes below is handed to the callback.      *)
(***************************************************************************)
CallNames ==
    {"T", "translateFunc", "userLocale", "localT", "NewAppError", "TranslateAsHtml",
     "newAppError", "Errorf"}

\* the callee is a name, a selector x.Name, or something else (a function
\* literal, an index expression, ...)
FunTypes == {"Ident", "SelectorExpr", "FuncLit"}

ArgExprs == {StringLit(IdA), StringLit(IdZ), IntLit, SomeVar}

CallExprs ==
    {CallExpr(ft, name, args) :
        ft \in FunTypes, name \in CallNames, args \in SeqUpTo(ArgExprs, MaxArgs)}

ConstNames == {"MISSING_CHANNEL_ERROR", "OTHER_ERROR"}
ConstValues == {StringLit(IdA), StringLit(IdZ), SomeVar}

\* name lists with as many initializers, or with none
ValueSpecs ==
    UNION {{ValueSpec(names, values) :
               names \in [1..k -> ConstNames],
               values \in [1..k -> ConstValues] \cup {<<>>}} : k \in 1..MaxNames}

LicenseSpec == ValueSpec(<<"EXPIRED_LICENSE_ERROR">>, <<StringLit(IdAB)>>)

GenDecls ==
    {GenDecl(tok, specs) :
        tok \in {"CONST", "VAR"},
        specs \in {<<vs>> : vs \in ValueSpecs} \cup {<<vs, LicenseSpec>> : vs \in ValueSpecs}}

InitScan ==
    /\ xeniaDir = DefaultXeniaDir
    /\ enterpriseDir = DefaultEnterpriseDir
    /\ tree = {}
    /\ enJson = JsonFile(<<>>)
    /\ before = enJson
    /\ node \in CallExprs \cup GenDecls \cup {OtherNode}
    /\ pc = "inspect"
    /\ Idle

\* ast.Inspect calls the callback with the node
Inspect ==
    /\ pc = "inspect"
    /\ i18nStrings' = InspectNode(node, i18nStrings)
    /\ pc' = "inspected"
    /\ UNCHANGED <<xeniaDir, enterpriseDir, tree, enJson, cmd, todo, walked, scanned,
                   translations, stdout, result, creates, before, prev, node>>

NextScan == Inspect

SpecScan == InitScan /\ [][NextScan]_vars

(***************************************************************************)
(* The file filter on one file: walkFunc is called with one file of one    *)
(* of the two roots.                                                       *)
(***************************************************************************)
XeniaDirs == {<<>>, <<"app">>}
EnterpriseDirs == {<<"..", "/", "enterprise">>, <<"enterprise">>}

RelDirs ==
    {<<>>, <<"vendor", "/">>, <<"vendor", "x", "/">>, <<"model", "/">>,
     <<"x", "model", "/">>, <<"api", "/", "vendor", "/">>}

FileNames ==
    {<<"main", ".go">>, <<"main", "_test", ".go">>, <<"client4", ".go">>,
     <<"main", ".json">>}

FilterFiles ==
    {[root |-> r, rel |-> d \o n, parses |-> TRUE,
      nodes |-> <<CallExpr("Ident", "T", <<StringLit(IdA)>>)>>] :
        r \in {"xenia", "enterprise"}, d \in RelDirs, n \in FileNames}

InitFilter ==
    /\ xeniaDir \in XeniaDirs
    /\ enterpriseDir \in EnterpriseDirs
    /\ \E f \in FilterFiles :
          /\ tree = {f}
          /\ pc = IF f.root = "xenia" THEN "walkXenia" ELSE "walkEnterprise"
    /\ enJson = JsonFile(<<>>)
    /\ before = enJson
    /\ node = OtherNode
    /\ cmd = "extract"
    /\ todo = tree
    /\ walked = {}
    /\ scanned = {}
    /\ i18nStrings = {}
    /\ translations = <<>>
    /\ stdout = <<>>
    /\ result = "none"
    /\ creates = 0
    /\ prev = NoRun

NextFilter == WalkFunc

SpecFilter == InitFilter /\ [][NextFilter]_vars


(***************************************************************************)
(* Properties of Extract and Check (specification Spec).                   *)
(***************************************************************************)
\* an Extract run has returned nil: en.json is written
ExtractDone == cmd = "extract" /\ pc = "done" /\ result = "ok"

\* the identifiers of the entries of a catalog file
Ids(file) == {file.entries[i].id : i \in 1..Len(file.entries)}

\* the value the last entry of an identifier carries in a catalog file
LastValue(file, id) ==
    LET at == {i \in 1..Len(file.entries) : file.entries[i].id = id}
        last == CHOOSE i \in at : \A j \in at : j <= i
    IN  file.entries[last].translation

\* the identifiers found in the files that were read, each file on its own
ScannedIds == UNION {InspectAll(f.nodes, {}) : f \in scanned}

\* the files neither of the filters turns away
Eligible(f) == ~VendorSkipped(FilePath(f)) /\ ~Filtered(FilePath(f))

\* C1: after a successful Extract the identifiers of the written catalog are
\* exactly the identifiers found in the scanned files together with the
\* statically injected ones: none is missing and none is extra.
C1_ExactCover ==
    ExtractDone =>
        /\ Ids(enJson) = ScannedIds \cup DynamicallyGenerated
        /\ Ids(enJson) = i18nStrings

\* an Extract that dropped a stale identifier, added a scanned one and added
\* an injected one
C1_Witness ==
    /\ ExtractDone
    /\ IdZ \in Ids(before) \ Ids(enJson)
    /\ IdA \in Ids(enJson) \ Ids(before)
    /\ IdMarch \in Ids(enJson) \ Ids(before)
    /\ Cardinality(scanned) = 2

\* C2: an identifier that the old catalog holds and that is still in use is
\* written with the value it had (the value of its last entry; a missing
\* value is written as null); an identifier the old catalog does not hold
\* is written with the empty string.
C2_TranslationPreserved ==
    ExtractDone =>
        \A i \in 1..Len(enJson.entries) :
            LET e == enJson.entries[i]
            IN  IF e.id \in Ids(before)
                THEN LET v == LastValue(before, e.id)
                     IN  /\ v # JAbsent => e.translation = v
                         /\ v = JAbsent => e.translation = JNull
                ELSE e.translation = JString("")

\* an Extract that kept a translated text, kept an empty string and added a
\* placeholder
C2_Witness ==
    /\ ExtractDone
    /\ Len(before.entries) = 2
    /\ before.entries[1] = [id |-> IdMay, translation |-> JString("<b>Hi</b>")]
    /\ before.entries[2] = [id |-> IdA, translation |-> JString("")]
    /\ \E i \in 1..Len(enJson.entries) : enJson.entries[i] = before.entries[1]
    /\ \E i \in 1..Len(enJson.entries) : enJson.entries[i] = before.entries[2]
    /\ IdMarch \in Ids(enJson)

AddedIds(lines) == {lines[i].id : i \in {j \in 1..Len(lines) : lines[j].kind = "Added"}}
RemovedIds(lines) == {lines[i].id : i \in {j \in 1..Len(lines) : lines[j].kind = "Removed"}}

\* a Check that reported was followed by a successful Extract on the same
\* tree and catalog
CheckThenExtract ==
    /\ ExtractDone
    /\ prev.cmd = "check"
    /\ prev.result \in {"ok", "outOfDate"}

\* C3: the identifiers Check prints as Added are exactly those the Extract
\* that follows inserts, the identifiers it prints as Removed are exactly
\* those that Extract deletes, and Check succeeds exactly when there are none
\* of either.
C3_CheckAgreement ==
    CheckThenExtract =>
        /\ AddedIds(prev.stdout) = Ids(enJson) \ Ids(before)
        /\ RemovedIds(prev.stdout) = Ids(before) \ Ids(enJson)
        /\ prev.result = "ok" <=>
               (Ids(enJson) \ Ids(before) = {} /\ Ids(before) \ Ids(enJson) = {})

\* a Check that printed both kinds of lines, and the Extract after it
C3_Witness ==
    /\ CheckThenExtract
    /\ prev.result = "outOfDate"
    /\ IdA \in AddedIds(prev.stdout)
    /\ IdZ \in RemovedIds(prev.stdout)

\* C4: while Check runs, and when it has ended in any way, en.json is what
\* it was when Check started.
C4_CheckReadOnly == cmd = "check" => enJson = before

\* a Check that found the catalog out of date
C4_Witness ==
    /\ cmd = "check"
    /\ pc = "done"
    /\ result = "outOfDate"
    /\ Len(stdout) >= 2

\* what the tree yields whatever the order of the walk: each file on its own
TreeIds == UNION {walkFunc(f, {}).strings : f \in tree}

\* C5: the written entries are in strictly increasing order of identifier,
\* and they are fixed by the set of source files and by the values the old
\* catalog gives each identifier: the order of the walk and the order and
\* repetition of the old entries do not show.
C5_SortedDeterministic ==
    ExtractDone =>
        LET es == enJson.entries
        IN  /\ \A i \in 1..Len(es) : \A j \in 1..Len(es) :
                   i < j => StringLess(es[i].id, es[j].id)
            /\ Len(es) = Cardinality(TreeIds \cup DynamicallyGenerated)
            /\ Ids(enJson) = TreeIds \cup DynamicallyGenerated
            /\ \A i \in 1..Len(es) :
                   es[i].translation \in
                       IF es[i].id \in Ids(before)
                       THEN {EncodeValue(DecodeValue(before.entries[k].translation)) :
                                k \in {n \in 1..Len(before.entries) :
                                          before.entries[n].id = es[i].id}}
                       ELSE {JString("")}

\* an Extract over two scanned files and an old catalog out of order
C5_Witness ==
    /\ ExtractDone
    /\ Cardinality(scanned) = 2
    /\ Len(before.entries) = 2
    /\ StringLess(before.entries[2].id, before.entries[1].id)
    /\ Len(enJson.entries) = 4

\* C6: an Extract that follows a successful Extract on the same tree writes
\* the catalog the first one wrote.
C6_Idempotent ==
    (ExtractDone /\ prev.cmd = "extract" /\ prev.result = "ok") => enJson = before

\* the second of two Extracts, the first of which changed a catalog with a
\* stale and a repeated identifier
C6_Witness ==
    /\ ExtractDone
    /\ prev.cmd = "extract"
    /\ prev.result = "ok"
    /\ prev.before # before
    /\ Len(prev.before.entries) = 2
    /\ IdZ \in Ids(prev.before)

\* C7: en.json is created at most once in a run, by Extract, after walkFunc
\* was called with every file of both roots, every eligible file was read
\* and the catalog was read; a run over a tree with an eligible file that
\* does not parse ends in a panic, a run that cannot read the catalog ends
\* with the read error, and neither changes en.json.
C7_WriteOnceAtEnd ==
    /\ creates <= 1
    /\ creates = 1 =>
           /\ cmd = "extract"
           /\ pc = "done"
           /\ walked = tree
           /\ scanned = {f \in tree : Eligible(f)}
           /\ \A f \in scanned : f.parses
           /\ before.exists
    /\ enJson # before => creates = 1
    /\ (pc = "done" /\ \E f \in tree : Eligible(f) /\ ~f.parses) =>
           result = "panic" /\ enJson = before /\ creates = 0
    /\ (pc = "done" /\ ~before.exists /\ result # "panic") =>
           result = "readError" /\ enJson = before /\ creates = 0

\* the one write of an Extract over a tree of three files
C7_Witness ==
    /\ ExtractDone
    /\ creates = 1
    /\ Cardinality(walked) = 3
    /\ enJson # before


(***************************************************************************)
(* Properties of the scanner (specification SpecScan).                     *)
(***************************************************************************)
\* the callback has run on a call expression
CallInspected == pc = "inspected" /\ node.type = "CallExpr"

NamedCallee == node.funType \in {"Ident", "SelectorExpr"}

IsStringLiteral(e) == e.type = "BasicLit" /\ e.kind = "STRING"

\* C8, as claimed: a call adds an identifier exactly when its callee is
\* named T, translateFunc, userLocale or localT and its first argument is a
\* string literal, or is named NewAppError or TranslateAsHtml and its second
\* argument is a string literal.
C8_AsClaimed ==
    CallInspected =>
        (i18nStrings # {} <=>
            /\ NamedCallee
            /\ \/ /\ node.name \in {"T", "translateFunc", "userLocale", "localT"}
                  /\ Len(node.args) >= 1
                  /\ IsStringLiteral(node.args[1])
               \/ /\ node.name \in {"NewAppError", "TranslateAsHtml"}
                  /\ Len(node.args) >= 2
                  /\ IsStringLiteral(node.args[2]))

\* C8, amended: a call adds an identifier exactly when its callee is named
\* T, newAppError, translateFunc, userLocale or localT and its first
\* argument is a basic literal of any kind, or is named NewAppError or
\* TranslateAsHtml and its second argument is a basic literal of any kind;
\* the identifier is the literal's text with the double quotes at its ends
\* cut.
C8_CallPattern ==
    CallInspected =>
        i18nStrings =
            IF /\ NamedCallee
               /\ node.name \in {"T", "newAppError", "translateFunc", "userLocale", "localT"}
               /\ Len(node.args) >= 1
               /\ node.args[1].type = "BasicLit"
            THEN {TrimQuotes(node.args[1].value)}
            ELSE IF /\ NamedCallee
                    /\ node.name \in {"NewAppError", "TranslateAsHtml"}
                    /\ Len(node.args) >= 2
                    /\ node.args[2].type = "BasicLit"
            THEN {TrimQuotes(node.args[2].value)}
            ELSE {}

\* x.NewAppError("a", "z") has added z
C8_Witness ==
    /\ CallInspected
    /\ node = CallExpr("SelectorExpr", "NewAppError", <<StringLit(IdA), StringLit(IdZ)>>)
    /\ i18nStrings = {IdZ}

\* the literals of the allow-listed names of a constant declaration, pair
\* by pair
ConstPairIds(decl) ==
    UNION {{TrimQuotes(decl.specs[s].values[k].value) :
               k \in {n \in 1..Len(decl.specs[s].names) :
                         /\ n <= Len(decl.specs[s].values)
                         /\ decl.specs[s].names[n] \in validConstants
                         /\ decl.specs[s].values[n].type = "BasicLit"}} :
           s \in 1..Len(decl.specs)}

\* C9: a constant declaration adds the literal of every name/initializer
\* pair whose name is allow-listed, wherever the pair stands in its
\* specification, and nothing else.
C9_EveryConstPair ==
    (pc = "inspected" /\ node.type = "GenDecl" /\ node.tok = "CONST") =>
        i18nStrings = ConstPairIds(node)

(***************************************************************************)
(* Properties of the file filter (specification SpecFilter).               *)
(***************************************************************************)
\* the file lies under the vendor directory of the primary root
UnderVendor(f) ==
    /\ f.root = "xenia"
    /\ Len(f.rel) > 2
    /\ f.rel[1] = "vendor"
    /\ f.rel[2] = "/"

\* C10: a file walkFunc is called with is read exactly when it is not under
\* the primary root's vendor directory, is not model/client4.go, is not a
\* _test.go file and is a .go file.
C10_FilterExact ==
    \A f \in walked :
        f \in scanned <=>
            /\ ~UnderVendor(f)
            /\ ~HasSuffix(FilePath(f), <<"model", "/", "client4", ".go">>)
            /\ ~HasSuffix(FilePath(f), <<"_test", ".go">>)
            /\ HasSuffix(FilePath(f), <<".go">>)

=============================================================================
